---- MODULE Spec2Model ----
(***************************************************************************)
(* The dotFun bootstrap lexer (src/bootstrap/lexer/lexer.rs, token.rs).    *)
(*                                                                         *)
(* A Lexer is constructed over one source buffer and lex() is run on it    *)
(* once.  The source is a sequence of bytes (integers 0..255), indexed     *)
(* from 1 here and from 0 in the code: the code's source[i] is source[i+1] *)
(* and the code's slice source[s..e] is SubSeq(source, s+1, e).            *)
(*                                                                         *)
(* One action is one pass through the while loop of lex (LexIter, LexEof), *)
(* the dispatch of scan_tokens (ScanTokens), or one iteration of a loop of *)
(* a sub-scanner (line comment, block comment, string, number,             *)
(* identifier); pc is the position in the code.                            *)
(***************************************************************************)
EXTENDS Integers, Sequences, FiniteSets, TLC

(* Byte literals: b["/"] is the code's b'/'. *)
b ==
    "\t" :> 9 @@ "\n" :> 10 @@ "\r" :> 13 @@ " " :> 32 @@ "!" :> 33 @@ "\"" :> 34 @@
    "#" :> 35 @@ "$" :> 36 @@ "%" :> 37 @@ "&" :> 38 @@ "'" :> 39 @@ "(" :> 40 @@
    ")" :> 41 @@ "*" :> 42 @@ "+" :> 43 @@ "," :> 44 @@ "-" :> 45 @@ "." :> 46 @@
    "/" :> 47 @@ "0" :> 48 @@ "1" :> 49 @@ "2" :> 50 @@ "3" :> 51 @@ "4" :> 52 @@
    "5" :> 53 @@ "6" :> 54 @@ "7" :> 55 @@ "8" :> 56 @@ "9" :> 57 @@ ":" :> 58 @@
    ";" :> 59 @@ "<" :> 60 @@ "=" :> 61 @@ ">" :> 62 @@ "?" :> 63 @@ "@" :> 64 @@
    "A" :> 65 @@ "B" :> 66 @@ "C" :> 67 @@ "D" :> 68 @@ "E" :> 69 @@ "F" :> 70 @@
    "G" :> 71 @@ "H" :> 72 @@ "I" :> 73 @@ "J" :> 74 @@ "K" :> 75 @@ "L" :> 76 @@
    "M" :> 77 @@ "N" :> 78 @@ "O" :> 79 @@ "P" :> 80 @@ "Q" :> 81 @@ "R" :> 82 @@
    "S" :> 83 @@ "T" :> 84 @@ "U" :> 85 @@ "V" :> 86 @@ "W" :> 87 @@ "X" :> 88 @@
    "Y" :> 89 @@ "Z" :> 90 @@ "[" :> 91 @@ "\\" :> 92 @@ "]" :> 93 @@ "^" :> 94 @@
    "_" :> 95 @@ "backtick" :> 96 @@ "a" :> 97 @@ "b" :> 98 @@ "c" :> 99 @@ "d" :> 100 @@
    "e" :> 101 @@ "f" :> 102 @@ "g" :> 103 @@ "h" :> 104 @@ "i" :> 105 @@ "j" :> 106 @@
    "k" :> 107 @@ "l" :> 108 @@ "m" :> 109 @@ "n" :> 110 @@ "o" :> 111 @@ "p" :> 112 @@
    "q" :> 113 @@ "r" :> 114 @@ "s" :> 115 @@ "t" :> 116 @@ "u" :> 117 @@ "v" :> 118 @@
    "w" :> 119 @@ "x" :> 120 @@ "y" :> 121 @@ "z" :> 122 @@ "{" :> 123 @@ "|" :> 124 @@
    "}" :> 125 @@ "~" :> 126

(* The bytes of a string literal, one character per element. *)
S(str) == [i \in DOMAIN str |-> b[str[i]]]

(* Bounds on the enumerated source buffers. *)
MaxOpLen == 3
MaxNumLen == 5
MaxCommentLen == 5
MaxStrLen == 4
MaxIdentLen == 4
MaxMixLen == 4
MaxCharLen == 3
MaxPrimLen == 3

(* All byte strings over alphabet A of length at most n. *)
Strings(A, n) == UNION {[1..k -> A] : k \in 0..n}

OpBytes == {b["+"], b["-"], b[">"], b["="], b["!"], b["<"], b["&"], b["|"], b[":"]}
NumBytes == {b["."], b["0"], b["9"], b["a"], b["\n"]}
CommentBytes == {b["/"], b["*"], b["\n"], b["a"]}
StrBytes == {b["\""], b["'"], b["\\"], b["\n"], b["a"]}
IdentBytes == {b["i"], b["f"], b["n"], b["I"], b["_"], b["0"], b[" "]}
MixBytes == {b["/"], b["*"], b["\""], b["."], b["0"], b["a"], b["\n"], b[">"]}

(* Characters as their UTF-8 bytes: the source is a String, so a byte at or *)
(* above 128 occurs only inside the encoding of a character.  The two      *)
(* multi-byte ones are U+00E9 and U+20AC.                                  *)
Chars ==
    { <<b["^"]>>, <<b["~"]>>, <<b["\\"]>>, <<b["backtick"]>>, <<0>>, <<195, 169>>,
      <<226, 130, 172>>, <<b["a"]>>, <<b["\n"]>>, <<b["\""]>> }

(* The bytes of a sequence of characters. *)
RECURSIVE Flatten(_)
Flatten(w) == IF w = <<>> THEN <<>> ELSE Head(w) \o Flatten(Tail(w))

(* All texts of at most n characters of C. *)
Texts(C, n) == {Flatten(w) : w \in Strings(C, n)}

(* Every ASCII byte as a one-byte source. *)
AsciiBytes == {<<c>> : c \in 0..127}

(* The inputs named by the specification's scenarios, and inputs for cases *)
(* that take more bytes than the bounds above give.                       *)
Samples ==
    { S(<<"x", "=", "4", "2", ";">>),
      S(<<"a", "&", "&", "b">>),
      S(<<"/", "/", " ", "c", "\n", "x">>),
      S(<<"/", "*", " ", "u", "n", "t", "e", "r", "m", "i", "n", "a", "t", "e", "d">>),
      S(<<".", ".">>),
      S(<<"3", ".", "1", "4">>),
      S(<<"3", ".">>),
      S(<<"1", ".", "2", ".", "3">>),
      S(<<"c", "l", "a", "s", "s">>),
      S(<<"c", "l", "a", "s", "s", "i", "f", "y">>),
      S(<<"C", "l", "a", "s", "s">>),
      S(<<"=", ">">>),
      S(<<"t", "r", "y", " ", "^">>),
      S(<<"i", "f", " ", "I", "f">>),
      S(<<"a", "b", "/", "*", "\n", "*", "/", "c", "d">>),
      S(<<"/", "*", "\n", "*", "/", "'", "\n", "\"", "\n", "a">>),
      S(<<"c", "a", "t", "c", "h">>),
      S(<<"f", "i", "n", "a", "l", "l", "y">>),
      S(<<"t", "h", "r", "o", "w">>),
      S(<<"s", "w", "i", "t", "c", "h">>),
      S(<<"c", "a", "s", "e">>),
      S(<<"d", "e", "f", "a", "u", "l", "t">>),
      S(<<"t", "r", "y", "=", ">", "x", "^">>) }

Sources ==
    Strings(OpBytes, MaxOpLen) \cup Strings(NumBytes, MaxNumLen)
      \cup Strings(CommentBytes, MaxCommentLen) \cup Strings(StrBytes, MaxStrLen)
      \cup Strings(IdentBytes, MaxIdentLen) \cup Strings(MixBytes, MaxMixLen)
      \cup Texts(Chars, MaxCharLen) \cup AsciiBytes \cup Samples

VARIABLES
    source,   \* Lexer.source, the bytes of the buffer
    start,    \* Lexer.start
    current,  \* Lexer.current
    line,     \* Lexer.line
    column,   \* Lexer.column
    tokens,   \* Lexer.tokens
    pc,       \* position in the code of lex and the scanners it calls
    result,   \* the value lex returned, [tag |-> "None"] while it runs
    spans,    \* history: one record per finished call of scan_tokens, with the
              \* values of start, current, line and column at its return,
              \* whether it returned Ok, and the tokens it pushed
    reads     \* history: the indices of the source that the last step read

vars == <<source, start, current, line, column, tokens, pc, result, spans, reads>>

(* enum TokenType: every kind that is declared. *)
TokenType ==
    {"Eof", "Identifier", "NumberLiteral", "StringLiteral",
     "Class", "Interface", "Import", "Package", "Enum", "Struct", "Protected",
     "Private", "Override", "This", "New", "Super", "Constructor", "Data", "Typeof",
     "Annotation",
     "If", "Else", "Elif", "While", "For", "Loop", "Break", "Continue",
     "Async", "Await", "Function", "Return",
     "True", "False", "Null",
     "Mut", "Val",
     "And", "Or", "Not", "Is", "In", "Of",
     "Try", "Catch", "Finally", "Throw",
     "Switch", "Case", "Default",
     "Plus", "Minus", "Star", "Slash", "Percent", "AndAnd", "OrOr", "NotBang",
     "NotEqual", "EqualEqual", "Colon", "Greater", "Less", "GreaterEqual",
     "LessEqual", "MinusMinus", "PlusPlus", "Dollar", "BangBang",
     "Equal",
     "LeftParen", "RightParen", "LeftBrace", "RightBrace", "LeftBracket",
     "RightBracket",
     "Arrow", "FatArrow", "ColonColon", "Question", "Ellipsis",
     "BitAnd", "BitOr", "BitXor", "ShiftLeft", "ShiftRight", "AT",
     "Comma", "Dot", "Semicolon"}

(* struct Token *)
Token(token_type, lexeme, ln, col) ==
    [token_type |-> token_type, lexeme |-> lexeme, line |-> ln, column |-> col]

(* Lexer::new *)
Init ==
    /\ source \in Sources
    /\ start = 0
    /\ current = 0
    /\ line = 1
    /\ column = 1
    /\ tokens = <<>>
    /\ pc = "lex"
    /\ result = [tag |-> "None"]
    /\ spans = <<>>
    /\ reads = {}

is_digit(c) == c >= b["0"] /\ c <= b["9"]

(* Mutant: one range from A to z, which takes in [ \ ] ^ and the backquote. *)
is_alpha_Wide(c) == (c >= b["A"] /\ c <= b["z"]) \/ c = b["_"]

is_alpha(c) ==
    (c >= b["a"] /\ c <= b["z"]) \/ (c >= b["A"] /\ c <= b["Z"]) \/ c = b["_"]

is_alpha_numeric(c) == is_alpha(c) \/ is_digit(c)

keywords ==
    (S(<<"c", "l", "a", "s", "s">>) :> "Class") @@
    (S(<<"i", "n", "t", "e", "r", "f", "a", "c", "e">>) :> "Interface") @@
    (S(<<"i", "m", "p", "o", "r", "t">>) :> "Import") @@
    (S(<<"p", "a", "c", "k", "a", "g", "e">>) :> "Package") @@
    (S(<<"e", "n", "u", "m">>) :> "Enum") @@
    (S(<<"s", "t", "r", "u", "c", "t">>) :> "Struct") @@
    (S(<<"p", "r", "o", "t", "e", "c", "t", "e", "d">>) :> "Protected") @@
    (S(<<"p", "r", "i", "v", "a", "t", "e">>) :> "Private") @@
    (S(<<"o", "v", "e", "r", "r", "i", "d", "e">>) :> "Override") @@
    (S(<<"t", "h", "i", "s">>) :> "This") @@
    (S(<<"n", "e", "w">>) :> "New") @@
    (S(<<"s", "u", "p", "e", "r">>) :> "Super") @@
    (S(<<"c", "o", "n", "s", "t", "r", "u", "c", "t", "o", "r">>) :> "Constructor") @@
    (S(<<"d", "a", "t", "a">>) :> "Data") @@
    (S(<<"t", "y", "p", "e", "o", "f">>) :> "Typeof") @@
    (S(<<"a", "n", "n", "o", "t", "a", "t", "i", "o", "n">>) :> "Annotation") @@
    (S(<<"i", "f">>) :> "If") @@
    (S(<<"e", "l", "s", "e">>) :> "Else") @@
    (S(<<"e", "l", "i", "f">>) :> "Elif") @@
    (S(<<"w", "h", "i", "l", "e">>) :> "While") @@
    (S(<<"f", "o", "r">>) :> "For") @@
    (S(<<"l", "o", "o", "p">>) :> "Loop") @@
    (S(<<"b", "r", "e", "a", "k">>) :> "Break") @@
    (S(<<"c", "o", "n", "t", "i", "n", "u", "e">>) :> "Continue") @@
    (S(<<"a", "s", "y", "n", "c">>) :> "Async") @@
    (S(<<"a", "w", "a", "i", "t">>) :> "Await") @@
    (S(<<"f", "n">>) :> "Function") @@
    (S(<<"r", "e", "t", "u", "r", "n">>) :> "Return") @@
    (S(<<"t", "r", "u", "e">>) :> "True") @@
    (S(<<"f", "a", "l", "s", "e">>) :> "False") @@
    (S(<<"n", "u", "l", "l">>) :> "Null") @@
    (S(<<"m", "u", "t">>) :> "Mut") @@
    (S(<<"v", "a", "l">>) :> "Val") @@
    (S(<<"a", "n", "d">>) :> "And") @@
    (S(<<"o", "r">>) :> "Or") @@
    (S(<<"n", "o", "t">>) :> "Not") @@
    (S(<<"i", "s">>) :> "Is") @@
    (S(<<"i", "n">>) :> "In") @@
    (S(<<"o", "f">>) :> "Of")

(* Mutant: a keyword at the head of the text is enough for a match. *)
lookup_keyword_Prefix(text) ==
    LET heads == {n \in 1..Len(text) : SubSeq(text, 1, n) \in DOMAIN keywords}
    IN  IF heads # {} THEN keywords[SubSeq(text, 1, CHOOSE n \in heads : TRUE)]
        ELSE "Identifier"

(* Mutant: the word try is a keyword of its own kind. *)
lookup_keyword_WithTry(text) ==
    IF text = S(<<"t", "r", "y">>) THEN "Try"
    ELSE IF text \in DOMAIN keywords THEN keywords[text] ELSE "Identifier"

lookup_keyword(text) ==
    IF text \in DOMAIN keywords THEN keywords[text] ELSE "Identifier"

(* The cursor primitives.  Each takes the fields it reads (current, column) *)
(* and returns the value the code returns with the fields as it leaves them. *)
is_at_end(cur) == cur >= Len(source)

(* self.source.as_bytes()[i].  An index at or past the end has no byte: the *)
(* code panics there, which is shown as -1.                                *)
as_bytes(i) == IF i < Len(source) THEN source[i + 1] ELSE -1

(* Mutant: advance at the end of input still counts a column. *)
advance_CountsAtEnd(cur, col) ==
    IF is_at_end(cur)
    THEN [c |-> 0, current |-> cur, column |-> col + 1, read |-> {}]
    ELSE [c |-> as_bytes(cur), current |-> cur + 1, column |-> col + 1, read |-> {cur}]

(* advance and match_char also return, as read, the indices of the source  *)
(* they have read.                                                         *)
advance(cur, col) ==
    IF is_at_end(cur)
    THEN [c |-> 0, current |-> cur, column |-> col, read |-> {}]
    ELSE [c |-> as_bytes(cur), current |-> cur + 1, column |-> col + 1, read |-> {cur}]

(* Mutant: a match reports true without consuming the byte. *)
match_char_NoAdvance(cur, col, expected) ==
    IF is_at_end(cur) THEN [ok |-> FALSE, current |-> cur, column |-> col, read |-> {}]
    ELSE IF as_bytes(cur) # expected
    THEN [ok |-> FALSE, current |-> cur, column |-> col, read |-> {cur}]
    ELSE [ok |-> TRUE, current |-> cur, column |-> col, read |-> {cur}]

(* Mutant: the byte is compared without the test for the end of input. *)
match_char_NoEndTest(cur, col, expected) ==
    IF as_bytes(cur) # expected
    THEN [ok |-> FALSE, current |-> cur, column |-> col, read |-> {cur}]
    ELSE [ok |-> TRUE, current |-> cur + 1, column |-> col + 1, read |-> {cur}]

match_char(cur, col, expected) ==
    IF is_at_end(cur) THEN [ok |-> FALSE, current |-> cur, column |-> col, read |-> {}]
    ELSE IF as_bytes(cur) # expected
    THEN [ok |-> FALSE, current |-> cur, column |-> col, read |-> {cur}]
    ELSE [ok |-> TRUE, current |-> cur + 1, column |-> col + 1, read |-> {cur}]

peek(cur) == IF is_at_end(cur) THEN 0 ELSE as_bytes(cur)

(* The indices of the source that peek reads. *)
peek_read(cur) == IF is_at_end(cur) THEN {} ELSE {cur}

peek_next(cur) == IF cur + 1 >= Len(source) THEN 0 ELSE as_bytes(cur + 1)

(* The indices of the source that peek_next reads. *)
peek_next_read(cur) == IF cur + 1 >= Len(source) THEN {} ELSE {cur + 1}

(* scan_tokens returns Ok(()) to the loop of lex, leaving the fields as given. *)
ReturnOk(cur, ln, col, toks) ==
    /\ current' = cur
    /\ line' = ln
    /\ column' = col
    /\ tokens' = toks
    /\ pc' = "lex"
    /\ spans' = Append(spans, [start |-> start, end |-> cur, ok |-> TRUE,
                               line |-> ln, column |-> col,
                               emitted |-> SubSeq(toks, Len(tokens) + 1, Len(toks))])
    /\ UNCHANGED <<source, start, result>>

(* Mutant: the error is swallowed and the loop of lex goes on. *)
ReturnErr_Recover(msg, cur, col) ==
    /\ current' = cur
    /\ column' = col
    /\ pc' = "lex"
    /\ spans' = Append(spans, [start |-> start, end |-> cur, ok |-> FALSE,
                               line |-> line, column |-> col,
                               emitted |-> <<>>])
    /\ UNCHANGED <<source, start, line, tokens, result>>

(* Mutant: the error path pushes the Eof token before it returns. *)
ReturnErr_PushEof(msg, cur, col) ==
    /\ current' = cur
    /\ column' = col
    /\ pc' = "done"
    /\ tokens' = Append(tokens, Token("Eof", <<>>, line, col))
    /\ result' = [tag |-> "Err", msg |-> msg]
    /\ spans' = Append(spans, [start |-> start, end |-> cur, ok |-> FALSE,
                               line |-> line, column |-> col,
                               emitted |-> <<>>])
    /\ UNCHANGED <<source, start, line>>

(* scan_tokens returns Err(msg) and the ? of lex returns it to the caller. *)
ReturnErr(msg, cur, col) ==
    /\ current' = cur
    /\ column' = col
    /\ pc' = "done"
    /\ result' = [tag |-> "Err", msg |-> msg]
    /\ spans' = Append(spans, [start |-> start, end |-> cur, ok |-> FALSE,
                               line |-> line, column |-> col,
                               emitted |-> <<>>])
    /\ UNCHANGED <<source, start, line, tokens>>

(* Mutant: the token is stamped with the column where its lexeme starts. *)
add_token_StartColumn(token_type, cur, ln, col) ==
    ReturnOk(cur, ln, col,
             Append(tokens, Token(token_type, SubSeq(source, start + 1, cur), ln,
                                  col - (cur - start))))

(* Mutant: the slice stops one byte short of current. *)
add_token_OneShort(token_type, cur, ln, col) ==
    ReturnOk(cur, ln, col,
             Append(tokens, Token(token_type, SubSeq(source, start + 1, cur - 1), ln, col)))

(* add_token(token_type) followed by the return of its Ok(()). *)
add_token(token_type, cur, ln, col) ==
    ReturnOk(cur, ln, col,
             Append(tokens, Token(token_type, SubSeq(source, start + 1, cur), ln, col)))

(* A scanner loop goes round once more, or scan_tokens calls a scanner. *)
Goto(label, cur, ln, col) ==
    /\ current' = cur
    /\ line' = ln
    /\ column' = col
    /\ pc' = label
    /\ UNCHANGED <<source, start, tokens, result, spans>>

(* Mutant: the loop body does not mark the start of the lexeme. *)
LexIter_NoMark ==
    /\ pc = "lex"
    /\ ~is_at_end(current)
    /\ pc' = "scan_tokens"
    /\ reads' = {}
    /\ UNCHANGED <<source, start, current, line, column, tokens, result, spans>>

(* lex: the loop test succeeds and the body marks the start of a lexeme. *)
LexIter ==
    /\ pc = "lex"
    /\ ~is_at_end(current)
    /\ start' = current
    /\ pc' = "scan_tokens"
    /\ reads' = {}
    /\ UNCHANGED <<source, current, line, column, tokens, result, spans>>

(* Mutant: lex returns the token list without the Eof token. *)
LexEof_NoPush ==
    /\ pc = "lex"
    /\ is_at_end(current)
    /\ result' = [tag |-> "Ok", tokens |-> tokens]
    /\ pc' = "done"
    /\ reads' = {}
    /\ UNCHANGED <<source, start, current, line, column, tokens, spans>>

(* lex: the loop test fails; push Eof and return Ok(&self.tokens). *)
LexEof ==
    /\ pc = "lex"
    /\ is_at_end(current)
    /\ tokens' = Append(tokens, Token("Eof", <<>>, line, column))
    /\ result' = [tag |-> "Ok", tokens |-> tokens']
    /\ pc' = "done"
    /\ reads' = {}
    /\ UNCHANGED <<source, start, current, line, column, spans>>

(* One of the two-way operator arms: c, then second gives two, else one. *)
Op2(cur, col, second, two, one) ==
    LET m == match_char(cur, col, second)
    IN  IF m.ok THEN add_token(two, m.current, line, m.column)
        ELSE add_token(one, m.current, line, m.column)

(* One of the three-way operator arms. *)
Op3(cur, col, secondA, twoA, secondB, twoB, one) ==
    LET m == match_char(cur, col, secondA)
    IN  IF m.ok THEN add_token(twoA, m.current, line, m.column)
        ELSE Op2(m.current, m.column, secondB, twoB, one)

(* The arms of scan_tokens that emit a one-byte token unconditionally. *)
single ==
    (b["*"] :> "Star") @@ (b["%"] :> "Percent") @@ (b["?"] :> "Question") @@
    (b[","] :> "Comma") @@ (b[";"] :> "Semicolon") @@ (b["("] :> "LeftParen") @@
    (b[")"] :> "RightParen") @@ (b["{"] :> "LeftBrace") @@ (b["}"] :> "RightBrace") @@
    (b["["] :> "LeftBracket") @@ (b["]"] :> "RightBracket") @@ (b["$"] :> "Dollar") @@
    (b["@"] :> "AT")

(* Mutant: the star of the opener is looked at but not consumed. *)
SlashArm_PeekStar(cur, col) ==
    LET m1 == match_char(cur, col, b["/"])
        m2 == match_char(m1.current, m1.column, b["*"])
    IN  IF m1.ok THEN Goto("line_comment", m1.current, line, m1.column)
        ELSE IF m2.ok THEN Goto("block_comment", m1.current, line, m1.column)
        ELSE add_token("Slash", m2.current, line, m2.column)

(* The b'/' arm of scan_tokens, up to the call of a comment scanner. *)
SlashArm(cur, col) ==
    LET m1 == match_char(cur, col, b["/"])
        m2 == match_char(m1.current, m1.column, b["*"])
    IN  IF m1.ok THEN Goto("line_comment", m1.current, line, m1.column)
        ELSE IF m2.ok THEN Goto("block_comment", m2.current, line, m2.column)
        ELSE add_token("Slash", m2.current, line, m2.column)

(* Mutant: two dots without a third are emitted as a Dot token. *)
DotArm_NoError(cur, col) ==
    LET m1 == match_char(cur, col, b["."])
        m2 == match_char(m1.current, m1.column, b["."])
    IN  IF m1.ok
        THEN IF m2.ok THEN add_token("Ellipsis", m2.current, line, m2.column)
             ELSE add_token("Dot", m2.current, line, m2.column)
        ELSE add_token("Dot", m1.current, line, m1.column)

(* The b'.' arm of scan_tokens. *)
DotArm(cur, col) ==
    LET m1 == match_char(cur, col, b["."])
        m2 == match_char(m1.current, m1.column, b["."])
    IN  IF m1.ok
        THEN IF m2.ok THEN add_token("Ellipsis", m2.current, line, m2.column)
             ELSE ReturnErr([text |-> "Expected third '.' for ellipsis at line",
                             line |-> line], m2.current, m2.column)
        ELSE add_token("Dot", m1.current, line, m1.column)

(* The bytes the arms of scan_tokens try with match_char, in order; the dot *)
(* arm tries its second dot after the first has matched, the others try    *)
(* their second byte after the first has not.                              *)
second_bytes ==
    (b["/"] :> <<b["/"], b["*"]>>) @@ (b["+"] :> <<b["+"]>>) @@
    (b["-"] :> <<b["-"], b[">"]>>) @@ (b["="] :> <<b["="]>>) @@
    (b["!"] :> <<b["="], b["!"]>>) @@ (b[">"] :> <<b["="], b[">"]>>) @@
    (b["<"] :> <<b["="], b["<"]>>) @@ (b["&"] :> <<b["&"]>>) @@
    (b["|"] :> <<b["|"]>>) @@ (b[":"] :> <<b[":"]>>) @@ (b["."] :> <<b["."], b["."]>>)

(* The indices read by scan_tokens up to its return or its call of a scanner. *)
ScanTokensReads ==
    LET a == advance(current, column)
        try == second_bytes[a.c]
        m1 == match_char(a.current, a.column, try[1])
        m2 == match_char(m1.current, m1.column, try[2])
        again == Len(try) = 2 /\ (m1.ok <=> a.c = b["."])
    IN  a.read \cup (IF a.c \in DOMAIN second_bytes
                     THEN m1.read \cup (IF again THEN m2.read ELSE {})
                     ELSE {})

(* The indices read by one pass through each scanner loop. *)
LineCommentReads ==
    IF is_at_end(current) THEN {}
    ELSE peek_read(current)
           \cup (IF peek(current) # b["\n"] THEN advance(current, column).read ELSE {})

BlockCommentReads ==
    IF is_at_end(current) THEN {}
    ELSE peek_read(current)
           \cup (IF peek(current) = b["*"] THEN peek_next_read(current) ELSE {})
           \cup (IF peek(current) = b["*"] /\ peek_next(current) = b["/"]
                 THEN advance(current, column).read
                        \cup advance(current + 1, column + 1).read
                 ELSE advance(current, column).read)

StringReads ==
    IF is_at_end(current) THEN {}
    ELSE peek_read(current) \cup advance(current, column).read

NumberReads ==
    peek_read(current)
      \cup (IF is_digit(peek(current)) THEN advance(current, column).read
            ELSE IF peek(current) # b["."] THEN {}
            ELSE peek_next_read(current)
                   \cup (IF is_digit(peek_next(current))
                         THEN advance(current, column).read ELSE {}))

NumberFractionReads ==
    peek_read(current)
      \cup (IF is_digit(peek(current)) THEN advance(current, column).read ELSE {})

IdentifierReads ==
    peek_read(current)
      \cup (IF is_alpha_numeric(peek(current)) THEN advance(current, column).read ELSE {})

(* scan_tokens: advance over one byte and dispatch on it. *)
ScanTokens ==
    /\ pc = "scan_tokens"
    /\ reads' = ScanTokensReads
    /\ LET a == advance(current, column)
           c == a.c
           cur == a.current
           col == a.column
       IN  CASE c \in {b[" "], b["\r"], b["\t"]} -> ReturnOk(cur, line, col, tokens)
             [] c = b["\n"] -> ReturnOk(cur, line + 1, 1, tokens)
             [] c = b["/"] -> SlashArm(cur, col)
             [] c \in {b["\""], b["'"]} -> Goto("string", cur, line, col)
             [] c = b["+"] -> Op2(cur, col, b["+"], "PlusPlus", "Plus")
             [] c = b["-"] -> Op3(cur, col, b["-"], "MinusMinus", b[">"], "Arrow", "Minus")
             [] c = b["="] -> Op2(cur, col, b["="], "EqualEqual", "Equal")
             [] c = b["!"] -> Op3(cur, col, b["="], "NotEqual", b["!"], "BangBang", "NotBang")
             [] c = b[">"] -> Op3(cur, col, b["="], "GreaterEqual", b[">"], "ShiftRight", "Greater")
             [] c = b["<"] -> Op3(cur, col, b["="], "LessEqual", b["<"], "ShiftLeft", "Less")
             [] c = b["&"] -> Op2(cur, col, b["&"], "AndAnd", "BitAnd")
             [] c = b["|"] -> Op2(cur, col, b["|"], "OrOr", "BitOr")
             [] c = b[":"] -> Op2(cur, col, b[":"], "ColonColon", "Colon")
             [] c = b["."] -> DotArm(cur, col)
             [] c \in DOMAIN single -> add_token(single[c], cur, line, col)
             [] is_digit(c) -> Goto("number", cur, line, col)
             [] is_alpha(c) -> Goto("identifier", cur, line, col)
             [] OTHER -> ReturnErr([text |-> "Unexpected character", ch |-> c,
                                    line |-> line, column |-> col], cur, col)

(* Mutant: the loop consumes the newline that ends the comment. *)
LineComment_EatsNewline ==
    /\ pc = "line_comment"
    /\ reads' = LineCommentReads
    /\ IF ~is_at_end(current) /\ peek(current) # b["\n"]
       THEN LET a == advance(current, column)
            IN  Goto("line_comment", a.current, line, a.column)
       ELSE LET a == advance(current, column)
            IN  ReturnOk(a.current, line, a.column, tokens)

(* Mutant: the loop body looks at the byte but does not advance over it. *)
LineComment_NoAdvance ==
    /\ pc = "line_comment"
    /\ reads' = LineCommentReads
    /\ IF ~is_at_end(current) /\ peek(current) # b["\n"]
       THEN Goto("line_comment", current, line, column)
       ELSE ReturnOk(current, line, column, tokens)

(* The loop of the line comment arm of scan_tokens. *)
LineComment ==
    /\ pc = "line_comment"
    /\ reads' = LineCommentReads
    /\ IF ~is_at_end(current) /\ peek(current) # b["\n"]
       THEN LET a == advance(current, column)
            IN  Goto("line_comment", a.current, line, a.column)
       ELSE ReturnOk(current, line, column, tokens)

(* One pass through the loop of block_comment. *)
(* Mutant: a newline in a block comment resets the column to 0. *)
BlockComment_ResetZero ==
    /\ pc = "block_comment"
    /\ reads' = BlockCommentReads
    /\ IF is_at_end(current)
       THEN ReturnErr([text |-> "Unterminated block comment at line", line |-> line],
                      current, column)
       ELSE IF peek(current) = b["*"] /\ peek_next(current) = b["/"]
       THEN LET a1 == advance(current, column)
                a2 == advance(a1.current, a1.column)
            IN  ReturnOk(a2.current, line, a2.column, tokens)
       ELSE LET nl == peek(current) = b["\n"]
                ln == IF nl THEN line + 1 ELSE line
                a == advance(current, IF nl THEN 0 ELSE column)
            IN  Goto("block_comment", a.current, ln, a.column)

(* block_comment: one pass of the loop. *)
BlockComment ==
    /\ pc = "block_comment"
    /\ reads' = BlockCommentReads
    /\ IF is_at_end(current)
       THEN ReturnErr([text |-> "Unterminated block comment at line", line |-> line],
                      current, column)
       ELSE IF peek(current) = b["*"] /\ peek_next(current) = b["/"]
       THEN LET a1 == advance(current, column)
                a2 == advance(a1.current, a1.column)
            IN  ReturnOk(a2.current, line, a2.column, tokens)
       ELSE LET nl == peek(current) = b["\n"]
                ln == IF nl THEN line + 1 ELSE line
                a == advance(current, IF nl THEN 1 ELSE column)
            IN  Goto("block_comment", a.current, ln, a.column)

(* Mutant: a newline in a string literal does not count as a line. *)
String_NoLine ==
    /\ pc = "string"
    /\ reads' = StringReads
    /\ IF is_at_end(current)
       THEN ReturnErr([text |-> "Unterminated string literal at line", line |-> line],
                      current, column)
       ELSE IF peek(current) = b["\""]
       THEN LET a == advance(current, column)
            IN  add_token("StringLiteral", a.current, line, a.column)
       ELSE LET nl == peek(current) = b["\n"]
                a == advance(current, IF nl THEN 0 ELSE column)
            IN  Goto("string", a.current, line, a.column)

(* Mutant: a single quote closes the literal as well. *)
String_AnyQuote ==
    /\ pc = "string"
    /\ reads' = StringReads
    /\ IF is_at_end(current)
       THEN ReturnErr([text |-> "Unterminated string literal at line", line |-> line],
                      current, column)
       ELSE IF peek(current) \in {b["\""], b["'"]}
       THEN LET a == advance(current, column)
            IN  add_token("StringLiteral", a.current, line, a.column)
       ELSE LET nl == peek(current) = b["\n"]
                ln == IF nl THEN line + 1 ELSE line
                a == advance(current, IF nl THEN 0 ELSE column)
            IN  Goto("string", a.current, ln, a.column)

(* One pass through the loop of string. *)
String ==
    /\ pc = "string"
    /\ reads' = StringReads
    /\ IF is_at_end(current)
       THEN ReturnErr([text |-> "Unterminated string literal at line", line |-> line],
                      current, column)
       ELSE IF peek(current) = b["\""]
       THEN LET a == advance(current, column)
            IN  add_token("StringLiteral", a.current, line, a.column)
       ELSE LET nl == peek(current) = b["\n"]
                ln == IF nl THEN line + 1 ELSE line
                a == advance(current, IF nl THEN 0 ELSE column)
            IN  Goto("string", a.current, ln, a.column)

(* Mutant: the fraction is entered on a dot alone, without peek_next. *)
Number_NoLookahead ==
    /\ pc = "number"
    /\ reads' = NumberReads
    /\ IF is_digit(peek(current))
       THEN LET a == advance(current, column)
            IN  Goto("number", a.current, line, a.column)
       ELSE IF peek(current) = b["."]
       THEN LET a == advance(current, column)
            IN  Goto("number_fraction", a.current, line, a.column)
       ELSE add_token("NumberLiteral", current, line, column)

(* number: one pass through the first loop, or the test of the fraction. *)
Number ==
    /\ pc = "number"
    /\ reads' = NumberReads
    /\ IF is_digit(peek(current))
       THEN LET a == advance(current, column)
            IN  Goto("number", a.current, line, a.column)
       ELSE IF peek(current) = b["."] /\ is_digit(peek_next(current))
       THEN LET a == advance(current, column)
            IN  Goto("number_fraction", a.current, line, a.column)
       ELSE add_token("NumberLiteral", current, line, column)

(* number: one pass through the second loop, then add_token. *)
NumberFraction ==
    /\ pc = "number_fraction"
    /\ reads' = NumberFractionReads
    /\ IF is_digit(peek(current))
       THEN LET a == advance(current, column)
            IN  Goto("number_fraction", a.current, line, a.column)
       ELSE add_token("NumberLiteral", current, line, column)

(* identifier: one pass through the loop, then the keyword lookup. *)
Identifier ==
    /\ pc = "identifier"
    /\ reads' = IdentifierReads
    /\ IF is_alpha_numeric(peek(current))
       THEN LET a == advance(current, column)
            IN  Goto("identifier", a.current, line, a.column)
       ELSE add_token(lookup_keyword(SubSeq(source, start + 1, current)),
                      current, line, column)

Next ==
    \/ LexIter
    \/ LexEof
    \/ ScanTokens
    \/ LineComment
    \/ BlockComment
    \/ String
    \/ Number
    \/ NumberFraction
    \/ Identifier

Spec == Init /\ [][Next]_vars

(* The cursor primitives are public methods: a caller that holds a Lexer    *)
(* from Lexer::new can call them one after another.  pc records the method *)
(* called last and result what it returned (and, for match_char, with      *)
(* which argument).  The sources may hold the byte 0, the value the        *)
(* primitives return at the end of input.                                  *)
PrimBytes == {0, b["="], b["a"]}

PrimSources == Strings(PrimBytes, MaxPrimLen)

PrimInit ==
    /\ source \in PrimSources
    /\ start = 0
    /\ current = 0
    /\ line = 1
    /\ column = 1
    /\ tokens = <<>>
    /\ pc = "new"
    /\ result = [tag |-> "None"]
    /\ spans = <<>>
    /\ reads = {}

CallAdvance ==
    /\ LET a == advance(current, column)
       IN  /\ current' = a.current
           /\ column' = a.column
           /\ reads' = a.read
           /\ result' = [tag |-> "u8", value |-> a.c]
    /\ pc' = "advance"
    /\ UNCHANGED <<source, start, line, tokens, spans>>

CallMatchChar ==
    \E expected \in PrimBytes :
        /\ LET m == match_char(current, column, expected)
           IN  /\ current' = m.current
               /\ column' = m.column
               /\ reads' = m.read
               /\ result' = [tag |-> "bool", value |-> m.ok, expected |-> expected]
        /\ pc' = "match_char"
        /\ UNCHANGED <<source, start, line, tokens, spans>>

CallPeek ==
    /\ result' = [tag |-> "u8", value |-> peek(current)]
    /\ reads' = peek_read(current)
    /\ pc' = "peek"
    /\ UNCHANGED <<source, start, current, line, column, tokens, spans>>

CallPeekNext ==
    /\ result' = [tag |-> "u8", value |-> peek_next(current)]
    /\ reads' = peek_next_read(current)
    /\ pc' = "peek_next"
    /\ UNCHANGED <<source, start, current, line, column, tokens, spans>>

PrimNext ==
    \/ CallAdvance
    \/ CallMatchChar
    \/ CallPeek
    \/ CallPeekNext

PrimSpec == PrimInit /\ [][PrimNext]_vars

(* lex is one blocking call on one thread: while a step is possible, one is *)
(* taken.                                                                   *)
FairSpec == Spec /\ WF_vars(Next)

(***************************************************************************)
(* Properties                                                              *)
(***************************************************************************)

(* The number of Eof tokens in a token sequence. *)
EofCount(toks) == Cardinality({i \in 1..Len(toks) : toks[i].token_type = "Eof"})

(* C1: when lex returns Ok, the token sequence it returns holds exactly   *)
(* one Eof token, that token is the last element, and its lexeme is empty. *)
C1_OkEndsWithOneEof ==
    result.tag = "Ok" =>
        LET t == result.tokens
        IN  /\ Len(t) >= 1
            /\ t[Len(t)].token_type = "Eof"
            /\ t[Len(t)].lexeme = <<>>
            /\ \A i \in 1..(Len(t) - 1) : t[i].token_type # "Eof"
            /\ EofCount(t) = 1

(* C1 witness: a successful run that returned tokens before the Eof. *)
C1_Witness ==
    /\ result.tag = "Ok"
    /\ Len(result.tokens) >= 3
    /\ result.tokens[Len(result.tokens)].token_type = "Eof"

(* The bytes of the spans of the first k scan-loop iterations, in order. *)
RECURSIVE SpanBytes(_)
SpanBytes(k) ==
    IF k = 0 THEN <<>>
    ELSE SpanBytes(k - 1) \o SubSeq(source, spans[k].start + 1, spans[k].end)

(* The tokens pushed by the first k scan-loop iterations, in order. *)
RECURSIVE SpanTokens(_)
SpanTokens(k) == IF k = 0 THEN <<>> ELSE SpanTokens(k - 1) \o spans[k].emitted

(* C2: when lex returns Ok, the spans [start, current) of the successive   *)
(* scan-loop iterations partition the source (the first starts at 0, each  *)
(* starts where the previous one ended, the last ends at len(source)),     *)
(* every non-Eof token was pushed by one iteration and its lexeme is the   *)
(* bytes of that iteration's span, and the spans in order give back the    *)
(* source.                                                                 *)
C2_SpansPartitionSource ==
    result.tag = "Ok" =>
        LET n == Len(spans)
        IN  /\ n = 0 => Len(source) = 0
            /\ n > 0 => spans[1].start = 0 /\ spans[n].end = Len(source)
            /\ \A i \in 2..n : spans[i].start = spans[i - 1].end
            /\ \A i \in 1..n : spans[i].start < spans[i].end
            /\ \A i \in 1..n : \A k \in 1..Len(spans[i].emitted) :
                   spans[i].emitted[k].lexeme
                       = SubSeq(source, spans[i].start + 1, spans[i].end)
            /\ SubSeq(tokens, 1, Len(tokens) - 1) = SpanTokens(n)
            /\ \A k \in 1..(Len(tokens) - 1) : tokens[k].token_type # "Eof"
            /\ SpanBytes(n) = source

(* C2 witness: a successful run with a skipped span between two tokens. *)
C2_Witness ==
    /\ result.tag = "Ok"
    /\ \E i \in 2..(Len(spans) - 1) :
           /\ spans[i].emitted = <<>>
           /\ spans[i - 1].emitted # <<>>
           /\ spans[i + 1].emitted # <<>>

(* C3: a scan step that fails is the last step of the run: the loop of lex *)
(* is left, current stays where the failing step left it, and lex returns  *)
(* Err with the message alone, without a token list.                       *)
C3_ErrorAborts ==
    /\ \A i \in 1..Len(spans) :
           ~spans[i].ok =>
               /\ i = Len(spans)
               /\ pc = "done"
               /\ result.tag = "Err"
               /\ current = spans[i].end
    /\ result.tag = "Err" =>
           /\ DOMAIN result = {"tag", "msg"}
           /\ pc = "done"
           /\ Len(spans) >= 1
           /\ ~spans[Len(spans)].ok
    /\ result.tag = "Ok" => \A i \in 1..Len(spans) : spans[i].ok

(* C3 witness: lex returned Err before the end of the source, with tokens  *)
(* buffered that are not returned.                                         *)
C3_Witness ==
    /\ result.tag = "Err"
    /\ current < Len(source)
    /\ Len(tokens) >= 1

(* C4 as stated: when lex has returned, Ok or Err, the token buffer ends   *)
(* with exactly one Eof token.                                             *)
C4_EofAlsoAfterError ==
    pc = "done" =>
        /\ Len(tokens) >= 1
        /\ tokens[Len(tokens)].token_type = "Eof"
        /\ EofCount(tokens) = 1

(* C4 amended: when lex has returned Ok the token buffer ends with exactly *)
(* one Eof token; when lex has returned Err no Eof token was pushed and    *)
(* the token buffer holds none.                                            *)
C4_EofOnlyOnSuccess ==
    /\ (pc = "done" /\ result.tag = "Ok") =>
           /\ Len(tokens) >= 1
           /\ tokens[Len(tokens)].token_type = "Eof"
           /\ EofCount(tokens) = 1
    /\ (pc = "done" /\ result.tag = "Err") => EofCount(tokens) = 0
    /\ pc # "done" => EofCount(tokens) = 0

(* C4 witness: lex returned Err and left tokens without Eof in the buffer. *)
C4_Witness ==
    /\ pc = "done"
    /\ result.tag = "Err"
    /\ Len(tokens) >= 2
    /\ EofCount(tokens) = 0

(* The smallest element of a non-empty set of integers. *)
Min(set) == CHOOSE x \in set : \A y \in set : x <= y

(* The number of newline bytes among the first k bytes of the source. *)
NewlineCount(k) == Cardinality({j \in 1..k : source[j] = b["\n"]})

(* The two-byte operators and the one-byte kinds of their first bytes. *)
TwoByteOperators ==
    (S(<<"+", "+">>) :> "PlusPlus") @@ (S(<<"-", "-">>) :> "MinusMinus") @@
    (S(<<"-", ">">>) :> "Arrow") @@ (S(<<"=", "=">>) :> "EqualEqual") @@
    (S(<<"!", "=">>) :> "NotEqual") @@ (S(<<"!", "!">>) :> "BangBang") @@
    (S(<<">", "=">>) :> "GreaterEqual") @@ (S(<<">", ">">>) :> "ShiftRight") @@
    (S(<<"<", "=">>) :> "LessEqual") @@ (S(<<"<", "<">>) :> "ShiftLeft") @@
    (S(<<"&", "&">>) :> "AndAnd") @@ (S(<<"|", "|">>) :> "OrOr") @@
    (S(<<":", ":">>) :> "ColonColon")

OneByteOperators ==
    (b["+"] :> "Plus") @@ (b["-"] :> "Minus") @@ (b["="] :> "Equal") @@
    (b["!"] :> "NotBang") @@ (b[">"] :> "Greater") @@ (b["<"] :> "Less") @@
    (b["&"] :> "BitAnd") @@ (b["|"] :> "BitOr") @@ (b[":"] :> "Colon")

(* Iteration i of the scan loop pushed exactly one token, of this kind and *)
(* with the bytes of the iteration's span as lexeme.                       *)
EmittedOne(i, kind) ==
    /\ Len(spans[i].emitted) = 1
    /\ spans[i].emitted[1].token_type = kind
    /\ spans[i].emitted[1].lexeme = SubSeq(source, spans[i].start + 1, spans[i].end)

(* C5: an iteration that starts at one of + - = ! > < & | : consumes two   *)
(* bytes and emits the one two-byte token when the two bytes are one of    *)
(* ++ -- -> == != !! >= >> <= << && || ::, and otherwise consumes one byte *)
(* and emits the one-byte token, leaving the second byte to the next       *)
(* iteration.                                                              *)
C5_MaximalMunch ==
    \A i \in 1..Len(spans) :
        LET s == spans[i].start
            c == source[s + 1]
            pair == SubSeq(source, s + 1, s + 2)
        IN  c \in DOMAIN OneByteOperators =>
                /\ spans[i].ok
                /\ IF s + 2 <= Len(source) /\ pair \in DOMAIN TwoByteOperators
                   THEN /\ spans[i].end = s + 2
                        /\ EmittedOne(i, TwoByteOperators[pair])
                        /\ spans[i].emitted[1].lexeme = pair
                   ELSE /\ spans[i].end = s + 1
                        /\ EmittedOne(i, OneByteOperators[c])
                        /\ spans[i].emitted[1].lexeme = <<c>>
                        /\ i < Len(spans) => spans[i + 1].start = s + 1

(* C5 witness: >> gave one ShiftRight, and a > followed by a byte that     *)
(* completes no pair gave Greater.                                         *)
C5_Witness ==
    /\ \E i \in 1..Len(spans) :
           /\ spans[i].emitted # <<>>
           /\ spans[i].emitted[1].token_type = "ShiftRight"
           /\ spans[i].end = spans[i].start + 2
    /\ \E j \in 1..Len(spans) :
           /\ spans[j].emitted # <<>>
           /\ spans[j].emitted[1].token_type = "Greater"
           /\ spans[j].end < Len(source)

(* C6: an iteration that starts at a dot emits one Dot when the next byte  *)
(* is not a dot, one Ellipsis with lexeme ... when the next two bytes are  *)
(* dots, and otherwise (two dots, then another byte or the end of input)   *)
(* emits nothing and makes lex fail with the ellipsis message naming the   *)
(* current line.                                                           *)
C6_DotDispatch ==
    \A i \in 1..Len(spans) :
        LET s == spans[i].start
            dot2 == s + 2 <= Len(source) /\ source[s + 2] = b["."]
            dot3 == s + 3 <= Len(source) /\ source[s + 3] = b["."]
        IN  source[s + 1] = b["."] =>
                IF ~dot2
                THEN spans[i].ok /\ spans[i].end = s + 1 /\ EmittedOne(i, "Dot")
                ELSE IF dot3
                THEN /\ spans[i].ok
                     /\ spans[i].end = s + 3
                     /\ EmittedOne(i, "Ellipsis")
                     /\ spans[i].emitted[1].lexeme = S(<<".", ".", ".">>)
                ELSE /\ ~spans[i].ok
                     /\ spans[i].emitted = <<>>
                     /\ tokens = SpanTokens(i - 1)
                     /\ result.tag = "Err"
                     /\ result.msg.text = "Expected third '.' for ellipsis at line"
                     /\ result.msg.line = line
                     /\ result.msg.line = 1 + NewlineCount(s)

(* C6 witness: after a Dot and a newline, two dots made lex fail.          *)
C6_Witness ==
    /\ result.tag = "Err"
    /\ result.msg.text = "Expected third '.' for ellipsis at line"
    /\ result.msg.line = 2
    /\ \E k \in 1..Len(tokens) : tokens[k].token_type = "Dot"

(* The bytes an identifier is made of, and those it may start with. *)
WordStart == (b["a"]..b["z"]) \cup (b["A"]..b["Z"]) \cup {b["_"]}

Digits == b["0"]..b["9"]

WordBytes == WordStart \cup Digits

(* The token kinds of the reserved words. *)
ReservedKinds == {keywords[k] : k \in DOMAIN keywords}

(* C7: an iteration that starts at an ASCII letter or underscore consumes  *)
(* the maximal run of ASCII letters, digits and underscores and emits one  *)
(* token with that lexeme, whose kind is the reserved word's kind when the *)
(* whole lexeme equals an entry of the keyword table, case-sensitively,    *)
(* and Identifier otherwise: class is Class, classify and Class are        *)
(* Identifier.                                                             *)
C7_IdentifierOrKeyword ==
    \A i \in 1..Len(spans) :
        LET s == spans[i].start
            e == spans[i].end
            text == SubSeq(source, s + 1, e)
        IN  source[s + 1] \in WordStart =>
                /\ spans[i].ok
                /\ \A j \in (s + 1)..e : source[j] \in WordBytes
                /\ e = Len(source) \/ source[e + 1] \notin WordBytes
                /\ Len(spans[i].emitted) = 1
                /\ spans[i].emitted[1].lexeme = text
                /\ LET kind == spans[i].emitted[1].token_type
                   IN  /\ kind \in ReservedKinds \cup {"Identifier"}
                       /\ kind \in ReservedKinds <=> text \in DOMAIN keywords
                       /\ text \in DOMAIN keywords => kind = keywords[text]
                       /\ text = S(<<"c", "l", "a", "s", "s">>) => kind = "Class"
                       /\ text = S(<<"i", "f">>) => kind = "If"
                       /\ text = S(<<"i", "n">>) => kind = "In"
                       /\ text = S(<<"f", "n">>) => kind = "Function"
                       /\ text = S(<<"c", "l", "a", "s", "s", "i", "f", "y">>)
                              => kind = "Identifier"
                       /\ text = S(<<"C", "l", "a", "s", "s">>) => kind = "Identifier"
                       /\ text = S(<<"I", "f">>) => kind = "Identifier"

(* C7 witness: a keyword was emitted and, after it, an Identifier whose    *)
(* lexeme is a keyword in another case.                                    *)
C7_Witness ==
    \E i, j \in 1..Len(spans) :
        /\ i < j
        /\ spans[i].emitted # <<>>
        /\ spans[i].emitted[1].token_type = "If"
        /\ spans[j].emitted # <<>>
        /\ spans[j].emitted[1].token_type = "Identifier"
        /\ spans[j].emitted[1].lexeme = S(<<"I", "f">>)

(* The end of the maximal run of digits that starts at index k (0-based).  *)
RECURSIVE DigitRunEnd(_)
DigitRunEnd(k) ==
    IF k < Len(source) /\ source[k + 1] \in Digits THEN DigitRunEnd(k + 1) ELSE k

(* C8: an iteration that starts at an ASCII digit emits one NumberLiteral  *)
(* whose lexeme is the maximal digit run, extended by a dot and a maximal  *)
(* non-empty digit run only when the dot is immediately followed by a      *)
(* digit; the lexeme holds at most one dot and never ends with one.        *)
C8_NumberLiteral ==
    /\ \A i \in 1..Len(spans) :
           LET s == spans[i].start
               d1 == DigitRunEnd(s)
               fraction == /\ d1 + 2 <= Len(source)
                           /\ source[d1 + 1] = b["."]
                           /\ source[d1 + 2] \in Digits
               e == IF fraction THEN DigitRunEnd(d1 + 1) ELSE d1
           IN  source[s + 1] \in Digits =>
                   /\ spans[i].ok
                   /\ spans[i].end = e
                   /\ EmittedOne(i, "NumberLiteral")
                   /\ LET lexeme == spans[i].emitted[1].lexeme
                      IN  /\ Cardinality({j \in 1..Len(lexeme) : lexeme[j] = b["."]}) <= 1
                          /\ lexeme[Len(lexeme)] \in Digits
                          /\ lexeme[1] \in Digits
    /\ (source = S(<<"3", ".", "1", "4">>) /\ pc = "done") =>
           /\ Len(tokens) = 2
           /\ tokens[1].token_type = "NumberLiteral"
           /\ tokens[1].lexeme = source
    /\ (source = S(<<"3", ".">>) /\ pc = "done") =>
           /\ Len(tokens) = 3
           /\ tokens[1].token_type = "NumberLiteral"
           /\ tokens[1].lexeme = S(<<"3">>)
           /\ tokens[2].token_type = "Dot"
    /\ (source = S(<<"1", ".", "2", ".", "3">>) /\ pc = "done") => Len(tokens) > 2

(* C8 witness: a NumberLiteral with a fraction was emitted right before a  *)
(* dot, which the next iteration dispatched on.                            *)
C8_Witness ==
    \E i \in 1..(Len(spans) - 1) :
        /\ spans[i].emitted # <<>>
        /\ spans[i].emitted[1].token_type = "NumberLiteral"
        /\ \E j \in 1..Len(spans[i].emitted[1].lexeme) :
               spans[i].emitted[1].lexeme[j] = b["."]
        /\ source[spans[i].end + 1] = b["."]
        /\ spans[i + 1].start = spans[i].end

(* C9: an iteration that starts at a double or single quote consumes every *)
(* byte up to and including the first later double quote and emits one     *)
(* StringLiteral spanning from the opening delimiter through that double   *)
(* quote; when no double quote follows, lex fails with the unterminated    *)
(* string message and no StringLiteral is emitted.                         *)
C9_StringLiteral ==
    \A i \in 1..Len(spans) :
        LET s == spans[i].start
            closers == {q \in (s + 2)..Len(source) : source[q] = b["\""]}
        IN  source[s + 1] \in {b["\""], b["'"]} =>
                IF closers # {}
                THEN /\ spans[i].ok
                     /\ spans[i].end = Min(closers)
                     /\ EmittedOne(i, "StringLiteral")
                     /\ spans[i].emitted[1].lexeme = SubSeq(source, s + 1, Min(closers))
                ELSE /\ ~spans[i].ok
                     /\ spans[i].end = Len(source)
                     /\ spans[i].emitted = <<>>
                     /\ tokens = SpanTokens(i - 1)
                     /\ result.tag = "Err"
                     /\ result.msg.text = "Unterminated string literal at line"

(* C9 witness: a literal opened by a single quote ran over a backslash, a  *)
(* single quote or a newline to the first double quote.                    *)
C9_Witness ==
    \E i \in 1..Len(spans) :
        /\ spans[i].emitted # <<>>
        /\ spans[i].emitted[1].token_type = "StringLiteral"
        /\ spans[i].emitted[1].lexeme[1] = b["'"]
        /\ \E j \in 2..(Len(spans[i].emitted[1].lexeme) - 1) :
               spans[i].emitted[1].lexeme[j] \in {b["\\"], b["'"], b["\n"]}
        /\ spans[i].end < Len(source)

(* C10: an iteration that starts at slash star skips up to and including   *)
(* the first star slash that begins after the opener and emits no token;   *)
(* when there is none, lex fails with the unterminated block comment       *)
(* message, whose line is the line counter at end-of-input.                *)
C10_BlockComment ==
    \A i \in 1..Len(spans) :
        LET s == spans[i].start
            closers == {k \in (s + 3)..(Len(source) - 1) :
                           source[k] = b["*"] /\ source[k + 1] = b["/"]}
        IN  (source[s + 1] = b["/"] /\ s + 2 <= Len(source) /\ source[s + 2] = b["*"]) =>
                IF closers # {}
                THEN /\ spans[i].ok
                     /\ spans[i].end = Min(closers) + 1
                     /\ spans[i].emitted = <<>>
                     /\ Len(tokens) >= Len(SpanTokens(i - 1))
                     /\ SubSeq(tokens, 1, Len(SpanTokens(i - 1))) = SpanTokens(i - 1)
                ELSE /\ ~spans[i].ok
                     /\ spans[i].end = Len(source)
                     /\ spans[i].emitted = <<>>
                     /\ tokens = SpanTokens(i - 1)
                     /\ current = Len(source)
                     /\ result.tag = "Err"
                     /\ result.msg.text = "Unterminated block comment at line"
                     /\ result.msg.line = line
                     /\ result.msg.line = 1 + NewlineCount(Len(source))

(* C10 witness: a comment opened by slash star slash was closed by a later *)
(* star slash, and lex went on to return Ok.                               *)
C10_Witness ==
    \E i \in 1..Len(spans) :
        /\ result.tag = "Ok"
        /\ spans[i].ok
        /\ spans[i].emitted = <<>>
        /\ spans[i].end >= spans[i].start + 5
        /\ SubSeq(source, spans[i].start + 1, spans[i].start + 3) = S(<<"/", "*", "/">>)

(* C11: an iteration that starts at slash slash skips up to, but not       *)
(* including, the next newline byte (or to the end of input) and emits no  *)
(* token; the newline is consumed by the next iteration, alone, which      *)
(* increments the line counter once; an iteration that starts at a slash   *)
(* followed by neither slash nor star emits one Slash.                     *)
C11_LineComment ==
    \A i \in 1..Len(spans) :
        LET s == spans[i].start
            next == IF s + 2 <= Len(source) THEN source[s + 2] ELSE 0
            newlines == {q \in (s + 3)..Len(source) : source[q] = b["\n"]}
            before == IF i = 1 THEN 1 ELSE spans[i - 1].line
        IN  source[s + 1] = b["/"] =>
                IF next = b["/"]
                THEN /\ spans[i].ok
                     /\ spans[i].emitted = <<>>
                     /\ spans[i].line = before
                     /\ spans[i].end = IF newlines = {} THEN Len(source)
                                       ELSE Min(newlines) - 1
                     /\ (newlines # {} /\ i < Len(spans)) =>
                            /\ spans[i + 1].start = Min(newlines) - 1
                            /\ spans[i + 1].end = Min(newlines)
                            /\ spans[i + 1].emitted = <<>>
                            /\ spans[i + 1].line = spans[i].line + 1
                            /\ spans[i + 1].column = 1
                ELSE next # b["*"] =>
                     /\ spans[i].ok
                     /\ spans[i].end = s + 1
                     /\ EmittedOne(i, "Slash")

(* C11 witness: a line comment, its newline, and a token on line 2.        *)
C11_Witness ==
    \E i \in 1..(Len(spans) - 2) :
        /\ SubSeq(source, spans[i].start + 1, spans[i].start + 2) = S(<<"/", "/">>)
        /\ spans[i].end > spans[i].start + 2
        /\ source[spans[i].end + 1] = b["\n"]
        /\ spans[i + 1].line = 2
        /\ spans[i + 2].emitted # <<>>
        /\ spans[i + 2].emitted[1].line = 2

(* The bytes some arm of the dispatch recognises. *)
Recognised ==
    {b[" "], b["\t"], b["\r"], b["\n"]}
      \cup {b[x] : x \in {"/", "\"", "'", "+", "-", "*", "%", "=", "!", ">", "<", "&",
                          "|", ":", ".", "?", ",", ";", "(", ")", "{", "}", "[", "]",
                          "$", "@"}}
      \cup Digits \cup WordStart

(* C12: an iteration that starts at a byte no arm recognises (among them   *)
(* NUL, ^ # ~ backslash, backquote and every byte from 128 up) consumes    *)
(* that byte, emits nothing and makes lex fail with the unexpected         *)
(* character message, which carries the byte as a character, the line and  *)
(* the column.                                                             *)
C12_UnexpectedCharacter ==
    /\ ({0, b["^"], b["#"], b["~"], b["\\"], b["backtick"]} \cup (128..255))
           \cap Recognised = {}
    /\ \A i \in 1..Len(spans) :
           LET s == spans[i].start
           IN  source[s + 1] \notin Recognised =>
                   /\ ~spans[i].ok
                   /\ spans[i].end = s + 1
                   /\ spans[i].emitted = <<>>
                   /\ tokens = SpanTokens(i - 1)
                   /\ result.tag = "Err"
                   /\ result.msg.text = "Unexpected character"
                   /\ result.msg.ch = source[s + 1]
                   /\ result.msg.line = line
                   /\ result.msg.line = 1 + NewlineCount(s)
                   /\ result.msg.column = column

(* C12 witness: after a token and a newline, the first byte of a two-byte  *)
(* character made lex fail on line 2.                                      *)
C12_Witness ==
    /\ result.tag = "Err"
    /\ result.msg.text = "Unexpected character"
    /\ result.msg.ch >= 128
    /\ result.msg.line = 2
    /\ Len(tokens) >= 1

(* C13: every step that appends a token other than Eof appends exactly one *)
(* token, whose lexeme is the non-empty slice source[start..current) with  *)
(* start < current <= len(source), current being the cursor as the step    *)
(* leaves it.                                                              *)
C13_LexemeIsSourceSlice ==
    [][tokens' # tokens =>
          LET t == tokens'[Len(tokens')]
          IN  /\ tokens' = Append(tokens, t)
              /\ t.token_type # "Eof" =>
                     /\ start' = start
                     /\ start < current'
                     /\ current' <= Len(source)
                     /\ t.lexeme # <<>>
                     /\ t.lexeme = SubSeq(source, start + 1, current')]_vars

(* C13 witness: two tokens other than Eof are in the buffer, the second    *)
(* with a lexeme of several bytes that does not start the source.          *)
C13_Witness ==
    /\ Len(tokens) >= 2
    /\ tokens[2].token_type # "Eof"
    /\ Len(tokens[2].lexeme) >= 2
    /\ start > 0

(* C14: in every state of a run, inside the scanners and after an error as *)
(* well, start <= current <= len(source), and no step has read the source  *)
(* at an index at or past len(source): advance, match_char, peek and       *)
(* peek_next return their 0 or false there without reading.                *)
C14_CursorInBounds ==
    /\ 0 <= start
    /\ start <= current
    /\ current <= Len(source)
    /\ reads \subseteq 0..(Len(source) - 1)

(* C14 witness: a step has read the last byte of the source and left the   *)
(* cursor at the end, inside a scanner whose loop test comes next.         *)
C14_Witness ==
    /\ pc \in {"string", "block_comment", "number", "number_fraction", "identifier",
               "line_comment"}
    /\ current = Len(source)
    /\ Len(source) - 1 \in reads
    /\ 0 < start

(* The positions inside the loops of the scanners. *)
ScannerLoops ==
    {"line_comment", "block_comment", "string", "number", "number_fraction",
     "identifier"}

(* C15: lex eventually returns; until then current never decreases, every  *)
(* call of scan_tokens moves current forward, and every pass through a     *)
(* scanner loop that stays in the loop moves current forward by at least 1. *)
C15_LexReturns ==
    /\ <>(pc = "done" /\ result.tag \in {"Ok", "Err"})
    /\ [][/\ current' >= current
          /\ pc = "scan_tokens" => current' > current
          /\ (pc \in ScannerLoops /\ pc' = pc) => current' >= current + 1]_vars

(* C15 witness: lex has returned after passes through a scanner loop.      *)
C15_Witness ==
    /\ pc = "done"
    /\ result.tag = "Ok"
    /\ \E i \in 1..Len(spans) : spans[i].end >= spans[i].start + 3

(* C16: the step that consumes a newline byte adds 1 to line and resets    *)
(* column: at the dispatch of scan_tokens column is set to 1 after the     *)
(* byte is consumed; inside a block comment column is set to 1 and inside  *)
(* a string literal to 0, in both cases before the advance over the        *)
(* newline, which then adds 1.                                             *)
C16_NewlineHandling ==
    [][/\ (pc = "scan_tokens" /\ as_bytes(current) = b["\n"]) =>
              /\ line' = line + 1
              /\ column' = 1
              /\ current' = current + 1
              /\ tokens' = tokens
       /\ (pc = "block_comment" /\ as_bytes(current) = b["\n"]) =>
              /\ line' = line + 1
              /\ column' = 1 + 1
              /\ current' = current + 1
              /\ pc' = "block_comment"
       /\ (pc = "string" /\ as_bytes(current) = b["\n"]) =>
              /\ line' = line + 1
              /\ column' = 0 + 1
              /\ current' = current + 1
              /\ pc' = "string"]_vars

(* C16 witness: lex has returned Ok for a source with a newline in a block *)
(* comment, a newline in a string literal and a newline at top level, each *)
(* iteration ending on the next line with the column of its context.       *)
C16_Witness ==
    /\ result.tag = "Ok"
    /\ \E i, j, k \in 1..Len(spans) :
          /\ SubSeq(source, spans[i].start + 1, spans[i].end)
                = S(<<"/", "*", "\n", "*", "/">>)
          /\ spans[i].line = 2 /\ spans[i].column = 4
          /\ SubSeq(source, spans[j].start + 1, spans[j].end) = S(<<"'", "\n", "\"">>)
          /\ spans[j].line = 3 /\ spans[j].column = 2
          /\ SubSeq(source, spans[k].start + 1, spans[k].end) = S(<<"\n">>)
          /\ spans[k].line = 4 /\ spans[k].column = 1

(* The number of bytes of source[0..e) up to and including its last        *)
(* newline byte, 0 when it has none.                                       *)
LastNewline(e) ==
    IF \E j \in 1..e : source[j] = b["\n"]
    THEN CHOOSE j \in 1..e : source[j] = b["\n"] /\ \A h \in (j + 1)..e : source[h] # b["\n"]
    ELSE 0

(* The p-th byte of the source was consumed by an iteration that began     *)
(* with the two bytes that open a block comment.                           *)
InBlockComment(p) ==
    \E m \in 1..Len(spans) :
        /\ spans[m].start < p
        /\ p <= spans[m].end
        /\ spans[m].start + 2 <= Len(source)
        /\ SubSeq(source, spans[m].start + 1, spans[m].start + 2) = S(<<"/", "*">>)

(* The column of the cursor at position e: k + 1 for the k bytes since the *)
(* last newline (or the start of input), one more when that newline was    *)
(* consumed inside a block comment.                                        *)
ColumnAt(e) ==
    LET p == LastNewline(e)
        k == e - p
    IN  IF p > 0 /\ InBlockComment(p) THEN k + 2 ELSE k + 1

(* C17: every token carries the column of the cursor after its lexeme was  *)
(* consumed: with k the bytes consumed since the last newline before the   *)
(* token's end (or since the start of input), the column is k + 1, and     *)
(* k + 2 when that newline was consumed inside a block comment; the Eof    *)
(* token carries the column of the cursor at the end of the source.        *)
C17_ColumnAfterLexeme ==
    /\ \A i \in 1..Len(spans) : \A t \in 1..Len(spans[i].emitted) :
          spans[i].emitted[t].column = ColumnAt(spans[i].end)
    /\ result.tag = "Ok" =>
          /\ result.tokens[Len(result.tokens)].token_type = "Eof"
          /\ result.tokens[Len(result.tokens)].column = ColumnAt(Len(source))
    /\ SpanTokens(Len(spans)) = SubSeq(tokens, 1, Len(SpanTokens(Len(spans))))

(* C17 witness: lex has returned Ok with a token whose lexeme has two      *)
(* bytes or more and whose end comes after a newline inside a block        *)
(* comment, and with a token on the first line.                            *)
C17_Witness ==
    /\ result.tag = "Ok"
    /\ \E i, j \in 1..Len(spans) :
          /\ Len(spans[i].emitted) = 1
          /\ LastNewline(spans[i].end) > 0
          /\ InBlockComment(LastNewline(spans[i].end))
          /\ spans[i].emitted[1].column = spans[i].end - LastNewline(spans[i].end) + 2
          /\ Len(spans[j].emitted) = 1
          /\ LastNewline(spans[j].end) = 0
          /\ spans[j].end - spans[j].start >= 2
          /\ spans[j].emitted[1].column = spans[j].end + 1

(* C18: every token carries line = 1 + the number of newline bytes in      *)
(* source[0..e), e being current when the token is appended: the end of    *)
(* its iteration for a token of scan_tokens, the end of the source for     *)
(* Eof, wherever the newlines were consumed.                               *)
C18_LineStamp ==
    /\ \A i \in 1..Len(spans) : \A t \in 1..Len(spans[i].emitted) :
          spans[i].emitted[t].line = 1 + NewlineCount(spans[i].end)
    /\ result.tag = "Ok" =>
          /\ result.tokens[Len(result.tokens)].token_type = "Eof"
          /\ result.tokens[Len(result.tokens)].line = 1 + NewlineCount(Len(source))
    /\ Len(tokens) = Len(SpanTokens(Len(spans))) + (IF result.tag = "Ok" THEN 1 ELSE 0)

(* C18 witness: lex has returned Ok with a string token that has a newline *)
(* in its lexeme, comes after an earlier newline, and carries the line of  *)
(* its closing quote; a later token is on a later line still.              *)
C18_Witness ==
    /\ result.tag = "Ok"
    /\ \E i, j \in 1..Len(spans) :
          /\ i < j
          /\ Len(spans[i].emitted) = 1
          /\ spans[i].emitted[1].token_type = "StringLiteral"
          /\ \E h \in 1..Len(spans[i].emitted[1].lexeme) :
                spans[i].emitted[1].lexeme[h] = b["\n"]
          /\ NewlineCount(spans[i].start) >= 1
          /\ spans[i].emitted[1].line = 1 + NewlineCount(spans[i].end)
          /\ Len(spans[j].emitted) = 1
          /\ spans[j].emitted[1].line > spans[i].emitted[1].line

(* C19: a call of peek or peek_next leaves every field as it was and       *)
(* returns the byte at current (at current + 1) or 0 when that index is at *)
(* or past the end; advance at the end returns 0 and leaves current and    *)
(* column, otherwise returns the byte at current and adds 1 to both;       *)
(* match_char(expected) adds 1 to both and returns true when not at the    *)
(* end and the byte at current is expected, and otherwise returns false    *)
(* and leaves both; no call changes source, start, line or tokens.         *)
C19_PrimitiveFrame ==
    [][/\ source' = source /\ start' = start /\ line' = line /\ tokens' = tokens
       /\ pc' = "peek" =>
              /\ current' = current /\ column' = column
              /\ result'.value = IF current >= Len(source) THEN 0 ELSE source[current + 1]
       /\ pc' = "peek_next" =>
              /\ current' = current /\ column' = column
              /\ result'.value = IF current + 1 >= Len(source) THEN 0
                                 ELSE source[current + 2]
       /\ pc' = "advance" =>
              IF current >= Len(source)
              THEN result'.value = 0 /\ current' = current /\ column' = column
              ELSE /\ result'.value = source[current + 1]
                   /\ current' = current + 1
                   /\ column' = column + 1
       /\ pc' = "match_char" =>
              LET hit == current < Len(source) /\ source[current + 1] = result'.expected
              IN  /\ result'.value = hit
                  /\ current' = (IF hit THEN current + 1 ELSE current)
                  /\ column' = (IF hit THEN column + 1 ELSE column)]_vars

(* C19 witness: advance has been called at the end of a source of two      *)
(* bytes or more, after calls that consumed all of it: it returned 0 and   *)
(* read nothing, and column is where the last consumed byte left it.       *)
C19_Witness ==
    /\ pc = "advance"
    /\ reads = {}
    /\ result.value = 0
    /\ Len(source) >= 2
    /\ current = Len(source)
    /\ column = Len(source) + 1
    /\ start = 0 /\ line = 1 /\ tokens = <<>>

(* The kinds that are declared in TokenType and have no arm in the lexer,   *)
(* and the words that would be the keywords of seven of them.              *)
NeverEmitted ==
    {"Try", "Catch", "Finally", "Throw", "Switch", "Case", "Default", "FatArrow",
     "BitXor"}

UnlexedWords ==
    {S(<<"t", "r", "y">>), S(<<"c", "a", "t", "c", "h">>),
     S(<<"f", "i", "n", "a", "l", "l", "y">>), S(<<"t", "h", "r", "o", "w">>),
     S(<<"s", "w", "i", "t", "c", "h">>), S(<<"c", "a", "s", "e">>),
     S(<<"d", "e", "f", "a", "u", "l", "t">>)}

(* C20: every token has a declared kind that is none of Try, Catch,        *)
(* Finally, Throw, Switch, Case, Default, FatArrow, BitXor; an iteration   *)
(* whose bytes are one of the words try, catch, finally, throw, switch,    *)
(* case, default emits Identifier; an iteration that starts at = followed  *)
(* by > consumes the = alone and emits Equal, and the next iteration       *)
(* starts at the > and emits Greater unless = or > follows it; an          *)
(* iteration that starts at ^ fails with the unexpected-character error.   *)
C20_NeverEmittedKinds ==
    /\ NeverEmitted \subseteq TokenType
    /\ \A t \in 1..Len(tokens) : tokens[t].token_type \in TokenType \ NeverEmitted
    /\ \A i \in 1..Len(spans) :
          LET s == spans[i].start
          IN  /\ SubSeq(source, s + 1, spans[i].end) \in UnlexedWords =>
                    EmittedOne(i, "Identifier")
              /\ (as_bytes(s) = b["="] /\ as_bytes(s + 1) = b[">"]) =>
                    /\ spans[i].end = s + 1
                    /\ EmittedOne(i, "Equal")
                    /\ i < Len(spans) =>
                          /\ spans[i + 1].start = s + 1
                          /\ spans[i + 1].ok
                          /\ Len(spans[i + 1].emitted) = 1
                          /\ spans[i + 1].emitted[1].token_type \in
                                {"Greater", "GreaterEqual", "ShiftRight"}
                          /\ as_bytes(s + 2) \notin {b["="], b[">"]} =>
                                EmittedOne(i + 1, "Greater")
              /\ as_bytes(s) = b["^"] =>
                    /\ ~spans[i].ok
                    /\ spans[i].end = s + 1
                    /\ result.tag = "Err"
                    /\ result.msg.text = "Unexpected character"
                    /\ result.msg.ch = b["^"]

(* C20 witness: lex has failed at a ^ after the word try came out as an    *)
(* Identifier and the bytes => as Equal and then Greater.                  *)
C20_Witness ==
    /\ result.tag = "Err"
    /\ result.msg.text = "Unexpected character"
    /\ result.msg.ch = b["^"]
    /\ Len(tokens) >= 3
    /\ tokens[1].token_type = "Identifier"
    /\ tokens[1].lexeme = S(<<"t", "r", "y">>)
    /\ tokens[2].token_type = "Equal"
    /\ tokens[2].lexeme = S(<<"=">>)
    /\ tokens[3].token_type = "Greater"
    /\ tokens[3].lexeme = S(<<">">>)
====
